---- MODULE Spec2Model ----
(***************************************************************************)
(* A model of the YouTube comment event extraction pipeline:               *)
(*   main.py          load_existing_events, save_events, merge_events, main *)
(*   src/fetcher.py   YouTubeCommentFetcher (pagination, filter, aggregate) *)
(*   src/analyzer.py  EventAnalyzer (spam / date / vocabulary rules)        *)
(*                                                                         *)
(* Strings whose order matters (extracted_at) are sequences of character   *)
(* codes, compared as Python compares str: lexicographically.  Python      *)
(* dicts are association lists that keep insertion order, as dict does.    *)
(***************************************************************************)
EXTENDS Integers, Sequences, FiniteSets, TLC

VARIABLES
    \* merge_events called on its own (main.py:76-100)
    m_pc, existing_arg, new_arg, merged_ret,
    \* data/events.json, and the clock behind datetime.utcnow()
    storeState, storeEvents, now,
    \* one run of main (main.py:103-177)
    pc, existing_events, comments, new_events, merged_events, exit_status,
    save_failed,
    \* one call of a paginated operation (fetcher.py:54-79, 231-250, 339-358)
    p_pc, p_op, p_cap, response, acc, requests, req_size, p_err, p_ret,
    \* one call of get_channel_latest_videos or get_video_statistics
    \* (fetcher.py:97-149, 151-198)
    c_pc, c_op, c_n, c_i, c_acc, c_err, c_ret,
    \* one call of fetch_comments (fetcher.py:374-443)
    a_pc, caller, video_id, channel_id, category_id, search_keyword,
    max_results, called, video_ids, comments_per_video, vid_idx,
    all_comments, failed, fetched, a_ret,
    \* one call of search_videos_by_keyword, from its candidates on
    \* (fetcher.py:252-300)
    f_pc, candidate_video_ids, world, statistics, max_videos,
    min_comment_count, days_old_max, filtered_videos, result_video_ids,
    stats_failed,
    \* extract_event_info called on its own (analyzer.py:106-143)
    e_pc, comment, e_ret

mergeVars == <<m_pc, existing_arg, new_arg, merged_ret>>
storeVars == <<storeState, storeEvents>>
runVars == <<pc, existing_events, comments, new_events, merged_events,
             exit_status, save_failed>>
mainVars == <<storeVars, now, runVars>>

pageVars == <<p_pc, p_op, p_cap, response, acc, requests, req_size, p_err,
              p_ret>>

callVars == <<c_pc, c_op, c_n, c_i, c_acc, c_err, c_ret>>

aggVars == <<a_pc, caller, video_id, channel_id, category_id, search_keyword,
             max_results, called, video_ids, comments_per_video, vid_idx,
             all_comments, failed, fetched, a_ret>>

filterVars == <<f_pc, candidate_video_ids, world, statistics, max_videos,
                min_comment_count, days_old_max, filtered_videos,
                result_video_ids, stats_failed>>

extractVars == <<e_pc, comment, e_ret>>

vars == <<mergeVars, mainVars, pageVars, callVars, aggVars, filterVars,
          extractVars>>
notMainVars == <<mergeVars, pageVars, callVars, aggVars, filterVars,
                 extractVars>>
notMergeVars == <<mainVars, pageVars, callVars, aggVars, filterVars,
                  extractVars>>
notPageVars == <<mergeVars, mainVars, callVars, aggVars, filterVars,
                 extractVars>>
notCallVars == <<mergeVars, mainVars, pageVars, aggVars, filterVars,
                 extractVars>>
notAggVars == <<mergeVars, mainVars, pageVars, callVars, filterVars,
                extractVars>>
notFilterVars == <<mergeVars, mainVars, pageVars, callVars, aggVars,
                   extractVars>>
notExtractVars == <<mergeVars, mainVars, pageVars, callVars, aggVars,
                    filterVars>>

----------------------------------------------------------------------------
(* Bounds of the model *)

MaxExisting == 2        \* longest existing list handed to merge_events
MaxIncoming == 2        \* longest incoming list handed to merge_events
MaxComments == 2        \* most comments one run of main fetches
MaxClock == 3           \* last instant of the clock
MaxCapParam == 2        \* largest max_results / max_videos of a paginated call
MaxPageItems == 3       \* most items in one page of the source
MaxRequests == 3        \* most page requests of one paginated call
MaxBudget == 3          \* largest max_results of fetch_comments
MaxVideos == 2          \* most videos a discovery call returns
MaxAvail == 3           \* most comments a video holds
MaxServe == 2           \* most comments the source serves per page
MaxCandidates == 3      \* most candidate videos of a keyword search
MaxVideosParam == 2     \* largest max_videos of a keyword search
MaxSegments == 4        \* most segments of a comment text
MaxBatches == 2         \* most full batches of a get_video_statistics call
MaxPlaylistItems == 2   \* most items playlistItems().list answers
MaxStored == 2          \* most items of the list the store file holds at first

----------------------------------------------------------------------------
(* Values *)

None == "None"
CommentIds == {"c1", "c2", "c3"}
StampedIds == {"c1", "c2"}

\* character codes
ChDot == 46
Ch0 == 48
ChZ == 90

\* "10" and "2": their lexicographic order differs from their numeric order
SampleStamps == { <<Ch0 + 1, Ch0>>, <<Ch0 + 2>> }

Range(s) == {s[i] : i \in 1..Len(s)}
SeqsUpTo(S, n) == UNION {[1..k -> S] : k \in 0..n}
SetMin(S) == CHOOSE x \in S : \A y \in S : x <= y
SetMax(S) == CHOOSE x \in S : \A y \in S : x >= y

IdsOf(events) == {events[i].comment_id : i \in 1..Len(events)}
LastWithId(events, id) ==
    events[SetMax({i \in 1..Len(events) : events[i].comment_id = id})]
NoDuplicateIds(events) ==
    \A i, j \in 1..Len(events) :
        events[i].comment_id = events[j].comment_id => i = j

----------------------------------------------------------------------------
(* The state of each part before it runs.  A specification starts the part *)
(* it is about and leaves the others idle.                                  *)

\* a response: 'items' present or not, its items, 'nextPageToken' present or not
NoResponse == [has_items |-> FALSE, items |-> <<>>, has_next |-> FALSE]

MergeIdle ==
    /\ m_pc = "off" /\ existing_arg = <<>> /\ new_arg = <<>>
    /\ merged_ret = <<>>

RunIdle ==
    /\ pc = "idle" /\ existing_events = <<>> /\ comments = <<>>
    /\ new_events = <<>> /\ merged_events = <<>> /\ exit_status = -1
    /\ save_failed = FALSE

MainIdle ==
    /\ storeState = "absent" /\ storeEvents = <<>> /\ now = 0
    /\ RunIdle

AggIdle ==
    /\ a_pc = "off" /\ caller = "direct" /\ video_id = None
    /\ channel_id = None /\ category_id = None /\ search_keyword = None
    /\ max_results = 0 /\ called = {} /\ video_ids = <<>>
    /\ comments_per_video = 0 /\ vid_idx = 0 /\ all_comments = <<>>
    /\ failed = {} /\ fetched = <<>> /\ a_ret = <<>>

FilterIdle ==
    /\ f_pc = "off" /\ candidate_video_ids = <<>> /\ world = << >>
    /\ statistics = << >> /\ max_videos = 0 /\ min_comment_count = 0
    /\ days_old_max = 0 /\ filtered_videos = <<>>
    /\ result_video_ids = <<>> /\ stats_failed = FALSE

ExtractIdle ==
    /\ e_pc = "off" /\ comment = << >> /\ e_ret = <<>>

PageIdle ==
    /\ p_pc = "off" /\ p_op = "get_video_comments" /\ p_cap = 0
    /\ response = NoResponse /\ acc = <<>> /\ requests = 0 /\ req_size = 0
    /\ p_err = None /\ p_ret = <<>>

CallIdle ==
    /\ c_pc = "off" /\ c_op = "get_video_statistics" /\ c_n = 0 /\ c_i = 0
    /\ c_acc = << >> /\ c_err = None /\ c_ret = << >>

----------------------------------------------------------------------------
(* Python primitives *)

\* str.__lt__: lexicographic comparison of two strings
RECURSIVE StrLess(_, _)
StrLess(a, b) ==
    IF b = <<>> THEN FALSE
    ELSE IF a = <<>> THEN TRUE
    ELSE IF Head(a) # Head(b) THEN Head(a) < Head(b)
    ELSE StrLess(Tail(a), Tail(b))

\* dict.__setitem__ on an insertion-ordered dict: an existing key keeps its
\* place and takes the new value, a new key goes last
DictSetKeepFirst(d, k, v) ==
    IF \E i \in 1..Len(d) : d[i][1] = k THEN d ELSE Append(d, <<k, v>>)

DictSet(d, k, v) ==
    IF \E i \in 1..Len(d) : d[i][1] = k
    THEN [i \in 1..Len(d) |-> IF d[i][1] = k THEN <<k, v>> ELSE d[i]]
    ELSE Append(d, <<k, v>>)

DictValues(d) == [i \in 1..Len(d) |-> d[i][2]]

----------------------------------------------------------------------------
(* main.py: merge_events *)

\* lines 88 and 91-92: fold the events into the dict, keyed by comment_id
RECURSIVE DictUpdateAll(_, _)
DictUpdateAll(d, events) ==
    IF events = <<>> THEN d
    ELSE DictUpdateAll(DictSet(d, Head(events).comment_id, Head(events)),
                       Tail(events))

\* line 98: key=lambda x: x.get('extracted_at', '')
SortKey(x) == IF "extracted_at" \in DOMAIN x THEN x.extracted_at ELSE <<>>

\* list.sort(key=..., reverse=True) is stable: an element goes before the
\* first element whose key is strictly smaller, after its equals
InsertAscending(s, x) ==
    LET smaller == {i \in 1..Len(s) : StrLess(SortKey(x), SortKey(s[i]))}
        pos == IF smaller = {} THEN Len(s) + 1 ELSE SetMin(smaller)
    IN  SubSeq(s, 1, pos - 1) \o <<x>> \o SubSeq(s, pos, Len(s))

InsertDescending(s, x) ==
    LET smaller == {i \in 1..Len(s) : StrLess(SortKey(s[i]), SortKey(x))}
        pos == IF smaller = {} THEN Len(s) + 1 ELSE SetMin(smaller)
    IN  SubSeq(s, 1, pos - 1) \o <<x>> \o SubSeq(s, pos, Len(s))

RECURSIVE SortInto(_, _)
SortInto(sorted, rest) ==
    IF rest = <<>> THEN sorted
    ELSE SortInto(InsertDescending(sorted, Head(rest)), Tail(rest))

SortByExtractedAtDesc(events) == SortInto(<<>>, events)

\* a merge that only concatenates (no dict)
MergeEventsNoDedup(existing, incoming) ==
    SortByExtractedAtDesc(existing \o incoming)

merge_events(existing, incoming) ==
    LET existing_dict == DictUpdateAll(DictUpdateAll(<<>>, existing), incoming)
    IN  SortByExtractedAtDesc(DictValues(existing_dict))

----------------------------------------------------------------------------
(* src/analyzer.py: EventAnalyzer *)

\* A text is a sequence of segments <<kind, length in characters>>:
\*   "ws"        a run of whitespace
\*   "plain"     characters that match no pattern and no vocabulary term
\*   "http_url"  a match of https?://[^\s]+      "www_url"  of www\.[^\s]+
\*   "tld"       one of .com .net .org .jp
\*   "date"      a match of a date/time pattern without cased letters
\*   "date_ampm" a match of AM\d{1,2} or PM\d{1,2}
\*   "kw"        a term of event_keywords
UrlKinds == {"http_url", "www_url", "tld"}
DateKinds == {"date", "date_ampm"}

MinTextLength == 5
MaxTextLength == 500

RECURSIVE TextLen(_)
TextLen(text) ==
    IF text = <<>> THEN 0 ELSE Head(text)[2] + TextLen(Tail(text))

HasKind(text, kinds) == \E i \in 1..Len(text) : text[i][1] \in kinds

\* str.strip(): leading and trailing whitespace removed
RECURSIVE LStrip(_)
LStrip(text) ==
    IF text # <<>> /\ Head(text)[1] = "ws" THEN LStrip(Tail(text)) ELSE text

RECURSIVE RStrip(_)
RStrip(text) ==
    IF text # <<>> /\ text[Len(text)][1] = "ws"
    THEN RStrip(SubSeq(text, 1, Len(text) - 1))
    ELSE text

Strip(text) == RStrip(LStrip(text))

\* str.lower(): the cased letters of an AM/PM form become lower case, after
\* which the form no longer matches AM\d{1,2}; nothing else has case
Lower(text) ==
    [i \in 1..Len(text) |->
        IF text[i][1] = "date_ampm" THEN <<"plain", text[i][2]>> ELSE text[i]]

contains_future_date(text) == HasKind(text, DateKinds)

contains_event_keyword(text) == HasKind(Lower(text), {"kw"})

IsSpamUnstripped(text) ==
    \/ HasKind(text, UrlKinds)
    \/ TextLen(text) < MinTextLength
    \/ TextLen(text) > MaxTextLength

is_spam(text) ==
    \/ HasKind(text, UrlKinds)
    \/ LET text_length == TextLen(Strip(text))
       IN  text_length < MinTextLength \/ text_length > MaxTextLength

\* dict.get(key, default)
Get(d, key, default) == IF key \in DOMAIN d THEN d[key] ELSE default

\* datetime.utcnow().isoformat() + 'Z' at instant t: the clock counts half
\* seconds, and isoformat() leaves the fraction out when it is zero
IsoFormatZ(t) ==
    <<Ch0 + (t \div 2)>>
        \o (IF t % 2 = 0 THEN <<>> ELSE <<ChDot, Ch0 + 5>>)
        \o <<ChZ>>

\* Optional[Dict]: <<>> is None, <<r>> is the record r
extract_event_info(c, t) ==
    LET text == Get(c, "text", <<>>) IN
    IF is_spam(text) THEN <<>>
    ELSE IF ~contains_future_date(text) THEN <<>>
    ELSE IF ~contains_event_keyword(text) THEN <<>>
    ELSE << [comment_id |-> Get(c, "comment_id", None),
             text |-> text,
             author |-> Get(c, "author", None),
             published_at |-> Get(c, "published_at", None),
             extracted_at |-> IsoFormatZ(t)] >>

\* analyze_comments, the i-th comment being examined at instant stamps[i]
RECURSIVE AnalyzeFrom(_, _, _)
AnalyzeFrom(cs, stamps, i) ==
    IF i > Len(cs) THEN <<>>
    ELSE extract_event_info(cs[i], stamps[i]) \o AnalyzeFrom(cs, stamps, i + 1)

analyze_comments(cs, stamps) == AnalyzeFrom(cs, stamps, 1)

----------------------------------------------------------------------------
(* main.py: load_existing_events, save_events, main *)

\* the store file is absent, cannot be opened or read, holds text json.load
\* rejects (a dump that failed half way leaves such a file), holds JSON that
\* is not a list, or holds a JSON list
FileStates == {"absent", "unreadable", "malformed", "not_list", "list"}

\* isinstance(data, list): the list is returned as it is, whatever it holds
load_existing_events(state, events) ==
    IF state = "list" THEN events ELSE <<>>

\* event['comment_id'] raises KeyError on a dict without the key (lines 88, 92)
MergeRaises(existing, incoming) ==
    \E i \in 1..Len(existing \o incoming) :
        "comment_id" \notin DOMAIN (existing \o incoming)[i]

EventTextA == << <<"date", 2>>, <<"kw", 2>>, <<"plain", 1>> >>
EventTextB == << <<"kw", 2>>, <<"ws", 1>>, <<"date_ampm", 4>> >>
ChatText == << <<"plain", 6>> >>
MainIds == {"c1", "c2"}
MainComments ==
    [comment_id : MainIds, text : {EventTextA, EventTextB, ChatText},
     author : {"a"}, published_at : {"p"}]

\* non-decreasing instants from t on, one per comment
StampsFrom(t, n) ==
    {st \in [1..n -> t..MaxClock] :
        \A i \in 1..n : i > 1 => st[i - 1] <= st[i]}

Init ==
    /\ MainIdle
    /\ MergeIdle
    /\ PageIdle
    /\ CallIdle
    /\ AggIdle
    /\ FilterIdle
    /\ ExtractIdle

Return(status) ==
    /\ pc' = "done"
    /\ exit_status' = status

\* lines 117-119: no API key
MainNoApiKey ==
    /\ pc = "idle"
    /\ Return(1)
    /\ UNCHANGED <<notMainVars, storeVars, now, existing_events, comments, new_events,
                   merged_events, save_failed>>

\* lines 127-131
MainLoad ==
    /\ pc = "idle"
    /\ existing_events' = load_existing_events(storeState, storeEvents)
    /\ pc' = "fetch"
    /\ UNCHANGED <<notMainVars, storeVars, now, comments, new_events, merged_events,
                   exit_status, save_failed>>

\* lines 135-149: the fetcher returns some comments, possibly none
MainFetch ==
    /\ pc = "fetch"
    /\ \E cs \in SeqsUpTo(MainComments, MaxComments) :
          /\ comments' = cs
          /\ IF cs = <<>>
             THEN Return(0)
             ELSE pc' = "analyze" /\ UNCHANGED exit_status
    /\ UNCHANGED <<notMainVars, storeVars, now, existing_events, new_events,
                   merged_events, save_failed>>

\* lines 175-177: building the client or fetching raised
MainFetchRaises ==
    /\ pc = "fetch"
    /\ Return(1)
    /\ UNCHANGED <<notMainVars, storeVars, now, existing_events, comments, new_events,
                   merged_events, save_failed>>

\* lines 152-157
MainAnalyze ==
    /\ pc = "analyze"
    /\ \E stamps \in StampsFrom(now, Len(comments)) :
          /\ new_events' = analyze_comments(comments, stamps)
          /\ now' = stamps[Len(comments)]
    /\ IF new_events' = <<>>
       THEN Return(0)
       ELSE pc' = "merge" /\ UNCHANGED exit_status
    /\ UNCHANGED <<notMainVars, storeVars, existing_events, comments, merged_events,
                   save_failed>>

\* lines 160-165, and lines 175-177 when merge_events raised
MainMerge ==
    /\ pc = "merge"
    /\ IF MergeRaises(existing_events, new_events)
       THEN Return(1) /\ UNCHANGED merged_events
       ELSE /\ merged_events' = merge_events(existing_events, new_events)
            /\ IF Len(merged_events') = Len(existing_events)
               THEN Return(0)
               ELSE pc' = "save" /\ UNCHANGED exit_status
    /\ UNCHANGED <<notMainVars, storeVars, now, existing_events, comments, new_events,
                   save_failed>>

\* lines 168-170, save_events lines 62-70
MainSave ==
    /\ pc = "save"
    /\ storeState' = "list"
    /\ storeEvents' = merged_events
    /\ Return(0)
    /\ UNCHANGED <<notMainVars, now, existing_events, comments, new_events, merged_events,
                   save_failed>>

\* lines 171-173, save_events lines 71-73: mkdir or open raised (the file is
\* as it was), or the dump raised after open truncated the file
MainSaveFails ==
    /\ pc = "save"
    /\ \/ UNCHANGED storeVars
       \/ storeState' = "malformed" /\ storeEvents' = <<>>
    /\ save_failed' = TRUE
    /\ Return(1)
    /\ UNCHANGED <<notMainVars, now, existing_events, comments, new_events, merged_events>>

\* the scheduler starts the next run, some time later
NextRun ==
    /\ pc = "done"
    /\ pc' = "idle"
    /\ existing_events' = <<>> /\ comments' = <<>> /\ new_events' = <<>>
    /\ merged_events' = <<>> /\ exit_status' = -1 /\ save_failed' = FALSE
    /\ now' \in now..MaxClock
    /\ UNCHANGED <<notMainVars, storeVars>>

Next ==
    \/ MainNoApiKey
    \/ MainLoad
    \/ MainFetch
    \/ MainFetchRaises
    \/ MainAnalyze
    \/ MainMerge
    \/ MainSave
    \/ MainSaveFails
    \/ NextRun

Spec == Init /\ [][Next]_vars

\* C3: a run of main in which the extractor yields at least one record ends
\* with the store holding merge_events(loaded collection, new records).  (A
\* run whose write raised is left aside.)
C3_StoreHoldsMergeAtEnd ==
    (pc = "done" /\ new_events # <<>> /\ ~save_failed) =>
        /\ storeState = "list"
        /\ storeEvents = merge_events(existing_events, new_events)

\* C4: from an absent store, after any sequence of runs, the persisted
\* collection holds no two records with the same comment_id.
C4_StoreHasUniqueIds ==
    storeState = "list" => NoDuplicateIds(storeEvents)

\* a later run re-extracted a stored comment beside a new one and was saved,
\* and the run after that failed
C4_Witness ==
    /\ storeState = "list"
    /\ Len(storeEvents) = 2
    /\ storeEvents[1].extracted_at # storeEvents[2].extracted_at
    /\ pc = "done" /\ exit_status = 1
    /\ Len(existing_events) = 2

----------------------------------------------------------------------------
(* main.py: runs of main over a store file in any state *)

\* a record an earlier run extracted, and a JSON object that has no
\* comment_id
StoredRecord ==
    extract_event_info([comment_id |-> "c1", text |-> EventTextA,
                        author |-> "a", published_at |-> "p"], 0)[1]
NotARecord == [text |-> ChatText]
StoreItems == {StoredRecord, NotARecord}

InitStore ==
    /\ storeState \in FileStates
    /\ IF storeState = "list"
       THEN storeEvents \in SeqsUpTo(StoreItems, MaxStored)
       ELSE storeEvents = <<>>
    /\ now = 0
    /\ RunIdle
    /\ MergeIdle /\ PageIdle /\ CallIdle /\ AggIdle /\ FilterIdle
    /\ ExtractIdle

SpecStore == InitStore /\ [][Next]_vars

IsRecord(x) == "comment_id" \in DOMAIN x

\* the file holds a JSON array of EventRecord objects
HoldsRecordArray ==
    /\ storeState = "list"
    /\ \A i \in 1..Len(storeEvents) : IsRecord(storeEvents[i])

\* C12: whatever the store file is (absent, unreadable, not JSON, JSON that
\* is not an array of EventRecord objects), loading yields the empty
\* collection, and a run of main ends with the failure status only for a
\* cause that is not the store's content: no API key, a fetch that raised
\* (both before any record is extracted) or a write that failed.
C12_StoreContentNeverFatal ==
    /\ (pc \in {"fetch", "analyze", "merge", "save"} /\ ~HoldsRecordArray)
          => existing_events = <<>>
    /\ (pc = "done" /\ exit_status = 1)
          => (new_events = <<>> \/ save_failed)

----------------------------------------------------------------------------
(* src/fetcher.py: the pagination loops of get_video_comments,             *)
(* search_videos_by_keyword and search_videos_by_category                  *)

CommentsPageMax == 100      \* commentThreads().list maxResults
SearchPageMax == 50         \* search().list maxResults
SearchLimitFactor == 3      \* search_limit = max_videos * 3

PageOps == {"get_video_comments", "search_videos_by_keyword",
            "search_videos_by_category"}

Min2(a, b) == IF a <= b THEN a ELSE b

\* the cap of each loop: max_results, max_videos * 3, max_videos
CapOf(op, n) ==
    IF op = "search_videos_by_keyword" THEN n * SearchLimitFactor ELSE n

PageMaxOf(op) ==
    IF op = "get_video_comments" THEN CommentsPageMax ELSE SearchPageMax

\* a comment thread always counts; a search result counts when its kind is
\* youtube#video
Counted(op, item) == op = "get_video_comments" \/ item.kind = "video"

\* the for loop without its budget test
RECURSIVE ConsumeAllItems(_, _, _, _)
ConsumeAllItems(list, items, cap, op) ==
    IF items = <<>> THEN list
    ELSE ConsumeAllItems(IF Counted(op, Head(items))
                         THEN Append(list, Head(items)) ELSE list,
                         Tail(items), cap, op)

\* for item in response['items']: break once len(list) >= cap
RECURSIVE ConsumeItems(_, _, _, _)
ConsumeItems(list, items, cap, op) ==
    IF items = <<>> \/ Len(list) >= cap THEN list
    ELSE ConsumeItems(IF Counted(op, Head(items))
                      THEN Append(list, Head(items)) ELSE list,
                      Tail(items), cap, op)

\* while len(list) < cap and 'items' in response
WhileCond(list, resp, cap) == Len(list) < cap /\ resp.has_items

\* if 'nextPageToken' in response and len(list) < cap
WantsNextPage(list, resp, cap) == resp.has_next /\ Len(list) < cap

\* maxResults of the first and of a further request
FirstPageSize(op, cap) == Min2(cap, PageMaxOf(op))
NextPageSize(op, cap, list) == Min2(cap - Len(list), PageMaxOf(op))

\* what the source may answer to request number n: any page, whatever the
\* size asked for, with or without a cursor
PageItems(op, n) ==
    IF op = "get_video_comments"
    THEN {[kind |-> "comment", page |-> n]}
    ELSE {[kind |-> "video", page |-> n], [kind |-> "other", page |-> n]}

Responses(op, n) ==
    [has_items : {TRUE}, items : SeqsUpTo(PageItems(op, n), MaxPageItems),
     has_next : BOOLEAN]
    \cup [has_items : {FALSE}, items : {<<>>}, has_next : BOOLEAN]

\* what a failing execute() raises: an HttpError whose content is empty, is
\* bytes that are UTF-8, or is bytes that are not UTF-8; or another exception
Errors == {"HttpError_no_content", "HttpError_utf8", "HttpError_not_utf8",
           "Exception"}

\* e.content.decode('utf-8') if e.content else str(e): bytes.decode raises
\* UnicodeDecodeError on bytes that are not UTF-8
Decode(e) ==
    IF e = "HttpError_not_utf8" THEN "UnicodeDecodeError" ELSE "str"

\* except HttpError as e: ... return [] / except Exception as e: ... return []
\* (lines 84-95, 138-149, 192-198, 302-311, 363-372).  An exception raised
\* inside the HttpError clause is not caught by the clause that follows it
ExceptClauses(e) ==
    IF e = "Exception" THEN "returns_empty"
    ELSE IF e = "HttpError_no_content" THEN "returns_empty"
    ELSE IF Decode(e) = "UnicodeDecodeError" THEN "raises"
    ELSE "returns_empty"

InitPage ==
    /\ p_pc = "start"
    /\ p_op \in PageOps
    /\ \E n \in 0..MaxCapParam : p_cap = CapOf(p_op, n)
    /\ response = NoResponse /\ acc = <<>> /\ requests = 0 /\ req_size = 0
    /\ p_err = None /\ p_ret = <<>>
    /\ MainIdle /\ MergeIdle /\ CallIdle /\ AggIdle /\ FilterIdle
    /\ ExtractIdle

\* the request before the loop
PageFirstRequest ==
    /\ p_pc = "start"
    /\ req_size' = FirstPageSize(p_op, p_cap)
    /\ requests' = 1
    /\ response' \in Responses(p_op, 1)
    /\ p_pc' = "while"
    /\ UNCHANGED <<p_op, p_cap, acc, p_err, p_ret, notPageVars>>

\* one turn of the while loop: the for loop, then the decision to go on
PageConsume ==
    /\ p_pc = "while"
    /\ WhileCond(acc, response, p_cap)
    /\ acc' = ConsumeItems(acc, response.items, p_cap, p_op)
    /\ IF WantsNextPage(acc', response, p_cap)
       THEN p_pc' = "request" /\ UNCHANGED p_ret
       ELSE p_pc' = "done" /\ p_ret' = acc'
    /\ UNCHANGED <<p_op, p_cap, response, requests, req_size, p_err,
                   notPageVars>>

\* the while condition is false: return what was gathered
PageLoopExit ==
    /\ p_pc = "while"
    /\ ~WhileCond(acc, response, p_cap)
    /\ p_pc' = "done"
    /\ p_ret' = acc
    /\ UNCHANGED <<p_op, p_cap, response, acc, requests, req_size, p_err,
                   notPageVars>>

\* the request inside the loop, with pageToken
PageNextRequest ==
    /\ p_pc = "request"
    /\ requests < MaxRequests
    /\ req_size' = NextPageSize(p_op, p_cap, acc)
    /\ requests' = requests + 1
    /\ response' \in Responses(p_op, requests + 1)
    /\ p_pc' = "while"
    /\ UNCHANGED <<p_op, p_cap, acc, p_err, p_ret, notPageVars>>

\* execute() raised: the except clauses run.  On their return the result is
\* [] and what the loop gathered is dropped; when the HttpError clause itself
\* raises, the call ends with that exception and returns nothing
PageRequestRaises ==
    /\ p_pc \in {"start", "request"}
    /\ \E e \in Errors :
          /\ p_err' = e
          /\ IF ExceptClauses(e) = "raises"
             THEN p_pc' = "raised" /\ UNCHANGED p_ret
             ELSE p_pc' = "done" /\ p_ret' = <<>>
    /\ UNCHANGED <<p_op, p_cap, response, acc, requests, req_size,
                   notPageVars>>

NextPage ==
    \/ PageFirstRequest
    \/ PageConsume
    \/ PageLoopExit
    \/ PageNextRequest
    \/ PageRequestRaises

SpecPage == InitPage /\ [][NextPage]_vars

\* C7: in each paginated operation, whatever pages the source returns, a
\* further page is requested only when the previous response carried a
\* cursor and the accumulated count is strictly below the cap; the
\* accumulated count never exceeds the cap, so the returned list is no
\* longer than the cap.
C7_PaginationWithinCap ==
    /\ [](Len(acc) <= p_cap /\ Len(p_ret) <= p_cap)
    /\ [][(requests' > requests /\ requests >= 1) =>
            (response.has_next /\ Len(acc) < p_cap)]_vars

\* the keyword search asked for a second page after a page that was larger
\* than asked for, and stopped at its cap
C7_Witness ==
    /\ p_op = "search_videos_by_keyword"
    /\ p_pc = "done"
    /\ requests >= 2
    /\ Len(p_ret) = p_cap
    /\ Len(response.items) > req_size

\* the requests a loop makes when every page that carries a cursor adds at
\* least one counted item: the first one, and at most one per item short of
\* the cap
RequestBound(cap) == IF cap = 0 THEN 1 ELSE cap

\* C13: each pagination loop ends after a number of page requests bounded by
\* a function of its cap, whatever the source answers, a source that keeps
\* sending a cursor with pages that hold no item, or no counted item,
\* included.
C13_RequestsBoundedByCap ==
    requests <= RequestBound(p_cap)

----------------------------------------------------------------------------
(* src/fetcher.py: get_video_comments against a video that holds `avail`   *)
(* comments and a source that serves at most `serve` of them per page      *)

\* the page that starts after `offset` comments, `size` being asked for
ServePage(vid, offset, size) ==
    LET n == Min2(Min2(size, vid.serve), vid.avail - offset) IN
    [has_items |-> TRUE,
     items |-> [k \in 1..n |-> [kind |-> "comment", video |-> vid.v,
                                k |-> offset + k]],
     has_next |-> offset + n < vid.avail]

\* lines 54-79
RECURSIVE FetchLoop(_, _, _, _, _)
FetchLoop(list, resp, cap, vid, offset) ==
    IF ~WhileCond(list, resp, cap) THEN list
    ELSE LET list2 == ConsumeItems(list, resp.items, cap, "get_video_comments")
             offset2 == offset + Len(resp.items)
         IN  IF WantsNextPage(list2, resp, cap)
             THEN FetchLoop(list2,
                            ServePage(vid, offset2,
                                NextPageSize("get_video_comments", cap, list2)),
                            cap, vid, offset2)
             ELSE list2

\* lines 40-82, no request failing
get_video_comments(vid, cap) ==
    FetchLoop(<<>>,
              ServePage(vid, 0, FirstPageSize("get_video_comments", cap)),
              cap, vid, 0)

----------------------------------------------------------------------------
(* src/fetcher.py: get_channel_latest_videos and get_video_statistics, one  *)
(* execute() at a time                                                      *)

StatisticsBatchSize == 50       \* range(0, len(video_ids), 50)

CallOps == {"get_channel_latest_videos", "get_video_statistics"}

\* len(video_ids) of a get_video_statistics call: none, one, and a full batch
\* or a full batch and one more, up to MaxBatches full batches
IdCounts ==
    {0, 1} \cup {b * StatisticsBatchSize + r : b \in 1..MaxBatches,
                                               r \in {0, 1}}

\* statistics[video_id] = {...} for each item of the response
DictPutAll(d, keys) ==
    [k \in (DOMAIN d) \cup keys |-> "stats"]

\* video_ids[i:i+50], the ids being 1..n
BatchIds(n, i) == {k \in 1..n : i < k /\ k <= i + StatisticsBatchSize}

\* the items videos().list answers for a batch: all of its ids, the first
\* only, or none
BatchAnswers(n, i) ==
    {BatchIds(n, i), BatchIds(n, i) \cap {i + 1}, {}}

InitCall ==
    /\ c_pc = "start"
    /\ c_op \in CallOps
    /\ IF c_op = "get_video_statistics" THEN c_n \in IdCounts ELSE c_n = 0
    /\ c_i = 0 /\ c_acc = << >> /\ c_err = None /\ c_ret = << >>
    /\ MainIdle /\ MergeIdle /\ PageIdle /\ AggIdle /\ FilterIdle
    /\ ExtractIdle

CallReturn(value) ==
    /\ c_pc' = "done"
    /\ c_ret' = value

\* lines 112-121: channels().list answers with the channel, whose uploads
\* playlist is then read, or with no item
ChannelLookup ==
    /\ c_pc = "start"
    /\ c_op = "get_channel_latest_videos"
    /\ \/ c_pc' = "playlist" /\ UNCHANGED c_ret
       \/ CallReturn(<<>>)
    /\ UNCHANGED <<c_op, c_n, c_i, c_acc, c_err, notCallVars>>

\* lines 124-136: playlistItems().list answers; every item's videoId is kept
ChannelPlaylistItems ==
    /\ c_pc = "playlist"
    /\ \E k \in 0..MaxPlaylistItems :
          /\ c_acc' = [j \in 1..k |-> j]
          /\ CallReturn(c_acc')
    /\ UNCHANGED <<c_op, c_n, c_i, c_err, notCallVars>>

\* lines 161-164
StatisticsCheckIds ==
    /\ c_pc = "start"
    /\ c_op = "get_video_statistics"
    /\ IF c_n = 0
       THEN CallReturn(<< >>)
       ELSE c_pc' = "batch" /\ UNCHANGED c_ret
    /\ UNCHANGED <<c_op, c_n, c_i, c_acc, c_err, notCallVars>>

\* lines 168-190: one turn of the loop over the batches
StatisticsBatch ==
    /\ c_pc = "batch"
    /\ \E items \in BatchAnswers(c_n, c_i) :
          c_acc' = DictPutAll(c_acc, items)
    /\ c_i' = c_i + StatisticsBatchSize
    /\ IF c_i' >= c_n
       THEN CallReturn(c_acc')
       ELSE UNCHANGED <<c_pc, c_ret>>
    /\ UNCHANGED <<c_op, c_n, c_err, notCallVars>>

\* an execute() raised, or the handling of its response did (a missing key,
\* a commentCount that int() rejects): the except clauses run
CallRaises ==
    /\ c_pc \in {"start", "playlist", "batch"}
    /\ c_pc = "start" => c_op = "get_channel_latest_videos"
    /\ \E e \in Errors :
          /\ c_err' = e
          /\ IF ExceptClauses(e) = "raises"
             THEN c_pc' = "raised" /\ UNCHANGED c_ret
             ELSE CallReturn(<< >>)
    /\ UNCHANGED <<c_op, c_n, c_i, c_acc, notCallVars>>

NextCall ==
    \/ ChannelLookup
    \/ ChannelPlaylistItems
    \/ StatisticsCheckIds
    \/ StatisticsBatch
    \/ CallRaises

----------------------------------------------------------------------------
(* src/fetcher.py: fetch_comments, and the call main makes of it *)

DefaultKeyword == "fukugyo"     \* os.getenv('SEARCH_KEYWORD', '副業')
OptionValues == {None, "", "id"}
Truthy(x) == x # None /\ x # ""

\* the ids main reads from the environment (unset, empty or set), and the
\* ids another caller passes (None or an id)
IdValues(who) == IF who = "main" THEN OptionValues ELSE {None, "id"}

\* main.py:140
MainSearchKeyword(vid, chan, cat, keyword) ==
    IF ~Truthy(vid) /\ ~Truthy(chan) /\ ~Truthy(cat) THEN keyword ELSE None

ZeroDivisionError == -1

\* max_results // len(video_ids) + 1
CommentsPerVideo(budget, n) ==
    IF n = 0 THEN ZeroDivisionError ELSE (budget \div n) + 1

\* the lists of videos a discovery call may return
VideoLists ==
    UNION {{[i \in 1..n |-> [v |-> i, avail |-> f[i]]] :
                f \in [1..n -> 0..MaxAvail]} : n \in 0..MaxVideos}

NeverNoVideos(ids) == FALSE

\* if not video_ids: return []
NoVideos(ids) == ids = <<>>

\* the branch the if/elif chain of lines 394-443 takes
Branch(vid, chan, cat, keyword) ==
    IF Truthy(vid) THEN "video"
    ELSE IF Truthy(chan) THEN "channel"
    ELSE IF Truthy(keyword) THEN "keyword"
    ELSE IF Truthy(cat) THEN "category"
    ELSE "none"

InitAgg ==
    /\ a_pc = "start"
    /\ caller \in {"main", "direct"}
    /\ video_id \in IdValues(caller)
    /\ channel_id \in IdValues(caller)
    /\ category_id \in IdValues(caller)
    /\ IF caller = "main"
       THEN \E keyword \in {DefaultKeyword, ""} :
               search_keyword =
                   MainSearchKeyword(video_id, channel_id, category_id, keyword)
       ELSE search_keyword \in OptionValues
    /\ max_results \in 0..MaxBudget
    /\ called = {} /\ video_ids = <<>> /\ comments_per_video = 0
    /\ vid_idx = 0 /\ all_comments = <<>> /\ failed = {} /\ fetched = <<>>
    /\ a_ret = <<>>
    /\ MainIdle /\ MergeIdle /\ PageIdle /\ CallIdle /\ FilterIdle
    /\ ExtractIdle

AggReturn(list) ==
    /\ a_pc' = "done"
    /\ a_ret' = list

\* lines 394-395: the comments of the one video
AggVideo ==
    /\ a_pc = "start"
    /\ Branch(video_id, channel_id, category_id, search_keyword) = "video"
    /\ called' = {"get_video_comments"}
    /\ \E n \in 0..MaxAvail, s \in 1..MaxServe :
          /\ video_ids' = << [v |-> 1, avail |-> n] >>
          /\ \/ /\ AggReturn(get_video_comments(
                                 [v |-> 1, avail |-> n, serve |-> s],
                                 max_results))
                /\ UNCHANGED failed
             \/ AggReturn(<<>>) /\ failed' = {1}
    /\ UNCHANGED <<caller, video_id, channel_id, category_id, search_keyword,
                   max_results, comments_per_video, vid_idx, all_comments,
                   fetched, notAggVars>>

\* lines 396-398: the loop of the channel branch runs over whatever
\* get_channel_latest_videos returned, the empty list included
AggDiscoverChannel ==
    /\ a_pc = "start"
    /\ Branch(video_id, channel_id, category_id, search_keyword) = "channel"
    /\ called' = {"get_channel_latest_videos"}
    /\ video_ids' \in VideoLists
    /\ comments_per_video' =
          IF video_ids' = <<>> THEN 0
          ELSE CommentsPerVideo(max_results, Len(video_ids'))
    /\ vid_idx' = 1
    /\ a_pc' = "loop"
    /\ UNCHANGED <<caller, video_id, channel_id, category_id, search_keyword,
                   max_results, all_comments, failed, fetched, a_ret,
                   notAggVars>>

\* what both search branches do with the videos found: lines 414-419, 429-434
StartLoopOver(ids) ==
    /\ video_ids' = ids
    /\ IF NoVideos(ids)
       THEN /\ AggReturn(<<>>)
            /\ UNCHANGED <<comments_per_video, vid_idx>>
       ELSE /\ comments_per_video' = CommentsPerVideo(max_results, Len(ids))
            /\ vid_idx' = 1
            /\ a_pc' = IF comments_per_video' = ZeroDivisionError
                       THEN "raised" ELSE "loop"
            /\ UNCHANGED a_ret

\* lines 405-419
AggDiscoverKeyword ==
    /\ a_pc = "start"
    /\ Branch(video_id, channel_id, category_id, search_keyword) = "keyword"
    /\ called' = {"search_videos_by_keyword"}
    /\ \E ids \in VideoLists : StartLoopOver(ids)
    /\ UNCHANGED <<caller, video_id, channel_id, category_id, search_keyword,
                   max_results, all_comments, failed, fetched, notAggVars>>

\* lines 426-434
AggDiscoverCategory ==
    /\ a_pc = "start"
    /\ Branch(video_id, channel_id, category_id, search_keyword) = "category"
    /\ called' = {"search_videos_by_category"}
    /\ \E ids \in VideoLists : StartLoopOver(ids)
    /\ UNCHANGED <<caller, video_id, channel_id, category_id, search_keyword,
                   max_results, all_comments, failed, fetched, notAggVars>>

\* lines 441-443
AggNothingGiven ==
    /\ a_pc = "start"
    /\ Branch(video_id, channel_id, category_id, search_keyword) = "none"
    /\ AggReturn(<<>>)
    /\ UNCHANGED <<caller, video_id, channel_id, category_id, search_keyword,
                   max_results, called, video_ids, comments_per_video,
                   vid_idx, all_comments, failed, fetched, notAggVars>>

NeverBudgetReached(list, budget) == FALSE

\* if len(all_comments) >= max_results: break
BudgetReached(list, budget) == Len(list) >= budget

\* one turn of `for vid in video_ids`: fetch (the call answers, or fails and
\* returns []), extend, break on the budget
AggFetchVideo ==
    /\ a_pc = "loop"
    /\ vid_idx <= Len(video_ids)
    /\ \E s \in 1..MaxServe :
          \/ LET got == get_video_comments(
                            [v |-> vid_idx,
                             avail |-> video_ids[vid_idx].avail, serve |-> s],
                            comments_per_video)
             IN  /\ fetched' = Append(fetched,
                                      [vid |-> vid_idx, comments |-> got])
                 /\ all_comments' = all_comments \o got
                 /\ UNCHANGED failed
          \/ /\ fetched' = Append(fetched,
                                   [vid |-> vid_idx, comments |-> <<>>])
             /\ all_comments' = all_comments
             /\ failed' = failed \cup {vid_idx}
    /\ IF BudgetReached(all_comments', max_results)
       THEN a_pc' = "break" /\ UNCHANGED vid_idx
       ELSE vid_idx' = vid_idx + 1 /\ UNCHANGED a_pc
    /\ UNCHANGED <<caller, video_id, channel_id, category_id, search_keyword,
                   max_results, called, video_ids, comments_per_video, a_ret,
                   notAggVars>>

\* the operation called at this point ended with the exception its HttpError
\* clause raised; fetch_comments has no try, so the exception goes on to its
\* caller
AggCallRaises ==
    /\ \/ /\ a_pc = "start"
          /\ Branch(video_id, channel_id, category_id, search_keyword)
                # "none"
       \/ a_pc = "loop" /\ vid_idx <= Len(video_ids)
    /\ \E e \in Errors : ExceptClauses(e) = "raises"
    /\ fetched' = IF a_pc = "loop"
                  THEN Append(fetched, [vid |-> vid_idx, comments |-> <<>>])
                  ELSE fetched
    /\ a_pc' = "propagated"
    /\ UNCHANGED <<caller, video_id, channel_id, category_id, search_keyword,
                   max_results, called, video_ids, comments_per_video,
                   vid_idx, all_comments, failed, a_ret, notAggVars>>

\* return all_comments[:max_results]
AggTruncate ==
    /\ \/ a_pc = "break"
       \/ a_pc = "loop" /\ vid_idx > Len(video_ids)
    /\ AggReturn(SubSeq(all_comments, 1, Min2(max_results, Len(all_comments))))
    /\ UNCHANGED <<caller, video_id, channel_id, category_id, search_keyword,
                   max_results, called, video_ids, comments_per_video,
                   vid_idx, all_comments, failed, fetched, notAggVars>>

NextAgg ==
    \/ AggVideo
    \/ AggDiscoverChannel
    \/ AggDiscoverKeyword
    \/ AggDiscoverCategory
    \/ AggNothingGiven
    \/ AggFetchVideo
    \/ AggCallRaises
    \/ AggTruncate

SpecAgg == InitAgg /\ [][NextAgg]_vars

RECURSIVE SumOver(_, _)
SumOver(f, S) ==
    IF S = {} THEN 0
    ELSE LET i == CHOOSE j \in S : TRUE IN f[i] + SumOver(f, S \ {i})

Aggregated ==
    /\ a_pc = "done"
    /\ called \cap {"get_channel_latest_videos", "search_videos_by_keyword",
                    "search_videos_by_category"} # {}

TotalAvailable ==
    SumOver([i \in 1..Len(video_ids) |-> video_ids[i].avail],
            1..Len(video_ids))

\* what the videos yield under the per-video quota, a failed fetch yielding 0
TotalWithinQuota ==
    SumOver([i \in 1..Len(video_ids) |->
                IF i \in failed THEN 0
                ELSE Min2(comments_per_video, video_ids[i].avail)],
            1..Len(video_ids))

\* C5 as stated: the aggregation branches return exactly
\* min(maxResults, total number of comments available across the selected
\* videos) comments (no fetch failing).
C5_ExactlyMinOfBudgetAndAvailable ==
    (Aggregated /\ failed = {}) =>
        Len(a_ret) = Min2(max_results, TotalAvailable)

\* C5 amended: the aggregation branches ask each of the N selected videos for
\* floor(maxResults / N) + 1 >= ceil(maxResults / N) comments and return
\* exactly min(maxResults, sum over the videos of min(that quota, comments
\* available on the video)) comments, a video whose fetch fails giving none;
\* this is at most min(maxResults, total available); with N = 0 the result is
\* empty and nothing is divided by zero.
C5_MinOfBudgetAndQuotaSum ==
    /\ a_pc # "raised"
    /\ Aggregated =>
          /\ Len(a_ret) = Min2(max_results, TotalWithinQuota)
          /\ Len(a_ret) <= Min2(max_results, TotalAvailable)
          /\ video_ids = <<>> => a_ret = <<>>
          /\ video_ids # <<>> =>
                /\ comments_per_video =
                       (max_results \div Len(video_ids)) + 1
                /\ comments_per_video * Len(video_ids) >= max_results

\* videos were found, one of them holds more than the quota while the others
\* fall short, and the result is shorter than the budget although enough
\* comments were available
C5_Witness ==
    /\ Aggregated
    /\ failed = {}
    /\ Len(video_ids) >= 2
    /\ TotalAvailable >= max_results
    /\ Len(a_ret) < max_results

\* C6: exactly one discovery mode is used, the highest-ranked configured one
\* in the order video id > channel id > category id > keyword; with a category
\* id and a keyword (and no video or channel id) the category search is used
\* and the keyword search is not called.
C6_PrecedenceCategoryBeforeKeyword ==
    a_pc = "done" =>
        called =
            IF Truthy(video_id) THEN {"get_video_comments"}
            ELSE IF Truthy(channel_id) THEN {"get_channel_latest_videos"}
            ELSE IF Truthy(category_id) THEN {"search_videos_by_category"}
            ELSE IF Truthy(search_keyword) THEN {"search_videos_by_keyword"}
            ELSE {}

IsPrefix(a, b) == Len(a) <= Len(b) /\ a = SubSeq(b, 1, Len(a))

\* the per-video results, one after the other in the order of the calls
RECURSIVE ConcatComments(_)
ConcatComments(log) ==
    IF log = <<>> THEN <<>>
    ELSE Head(log).comments \o ConcatComments(Tail(log))

\* the calls so far are for the first selected videos, in their order
FetchedInSelectionOrder ==
    \A i \in 1..Len(fetched) :
        i <= Len(video_ids) /\ fetched[i].vid = video_ids[i].v

\* the total of the per-video results so far
RunningTotal == Len(ConcatComments(fetched))

\* C14 as stated: in the aggregation branches the selected videos are
\* fetched one at a time in selection order, no per-video fetch is issued in
\* a state where the running total has already reached maxResults, and the
\* returned list is a prefix of the concatenation of the per-video results
\* in selection order.
C14_NoFetchOnceBudgetReached ==
    /\ [](FetchedInSelectionOrder)
    /\ [][fetched' # fetched =>
            /\ RunningTotal < max_results
            /\ Len(fetched') = Len(fetched) + 1
            /\ SubSeq(fetched', 1, Len(fetched)) = fetched]_vars
    /\ [](Aggregated => IsPrefix(a_ret, ConcatComments(fetched)))

\* C14 amended: the selected videos are fetched one at a time in selection
\* order; the first selected video is always fetched, and every later fetch
\* is issued only while the running total is below maxResults (so with
\* maxResults >= 1 no fetch is issued once the total has reached it, and with
\* maxResults = 0 exactly one is); the returned list is a prefix of the
\* concatenation of the per-video results in selection order.
C14_SequentialFetchWithinBudget ==
    /\ [](FetchedInSelectionOrder)
    /\ [][fetched' # fetched =>
            /\ fetched = <<>> \/ RunningTotal < max_results
            /\ max_results >= 1 => RunningTotal < max_results
            /\ Len(fetched') = Len(fetched) + 1
            /\ SubSeq(fetched', 1, Len(fetched)) = fetched]_vars
    /\ [](max_results = 0 => Len(fetched) <= 1)
    /\ [](Aggregated => IsPrefix(a_ret, ConcatComments(fetched)))

\* two videos were fetched, the first gave comments, the second was fetched
\* below the budget and took the total over it, and the result was cut
C14_Witness ==
    /\ Aggregated
    /\ Len(fetched) = 2
    /\ fetched[1].comments # <<>>
    /\ fetched[2].comments # <<>>
    /\ Len(ConcatComments(fetched)) > max_results
    /\ Len(a_ret) = max_results

----------------------------------------------------------------------------
(* src/fetcher.py: search_videos_by_keyword after the candidates are       *)
(* collected: statistics, filter, sort, truncate (lines 252-300)           *)

NowHours == 240         \* datetime.utcnow(), in hours
HoursPerDay == 24

\* publishedAt strings: one that fromisoformat rejects, and three instants
\* 3 days, 7 days 23 hours and 8 days before now
BadPublishedAt == [ok |-> FALSE, hours |-> 0]
PublishedAts ==
    {BadPublishedAt}
    \cup {[ok |-> TRUE, hours |-> NowHours - h] :
             h \in {3 * HoursPerDay, 7 * HoursPerDay + 23, 8 * HoursPerDay}}
CommentCounts == {9, 10, 11}
MinCommentCounts == {10, 11}
DaysOldMaxes == {7}

VideoStats == [comment_count : CommentCounts, published_at : PublishedAts]

\* (now - published_at.replace(tzinfo=None)).days: whole days, rounded down
DaysOld(now_hours, published_at) ==
    (now_hours - published_at.hours) \div HoursPerDay

\* line 272: comment_count < min_comment_count
TooFewCommentsInclusive(comment_count, minimum) == comment_count <= minimum

TooFewComments(comment_count, minimum) == comment_count < minimum

\* line 280: days_old > days_old_max
TooOld(days_old, maximum) == days_old > maximum

\* lines 263-291: the body of the loop for one candidate: <<>> when the
\* candidate is skipped, else the entry appended to filtered_videos
FilterOne(vid, stats, minimum, maximum) ==
    IF vid \notin DOMAIN stats THEN <<>>
    ELSE IF TooFewComments(stats[vid].comment_count, minimum) THEN <<>>
    ELSE IF ~stats[vid].published_at.ok THEN <<>>
    ELSE IF TooOld(DaysOld(NowHours, stats[vid].published_at), maximum)
         THEN <<>>
    ELSE << [video_id |-> vid,
             comment_count |-> stats[vid].comment_count,
             days_old |-> DaysOld(NowHours, stats[vid].published_at),
             published_at |-> stats[vid].published_at] >>

RECURSIVE FilterVideos(_, _, _, _)
FilterVideos(ids, stats, minimum, maximum) ==
    IF ids = <<>> THEN <<>>
    ELSE FilterOne(Head(ids), stats, minimum, maximum)
            \o FilterVideos(Tail(ids), stats, minimum, maximum)

\* line 294: key=lambda x: (-x['comment_count'], x['days_old'])
KeyLessCountOnly(a, b) == a.comment_count > b.comment_count

KeyLess(a, b) ==
    \/ a.comment_count > b.comment_count
    \/ a.comment_count = b.comment_count /\ a.days_old < b.days_old

\* list.sort is stable: an entry goes before the first entry it is less than
InsertByKey(s, x) ==
    LET later == {i \in 1..Len(s) : KeyLess(x, s[i])}
        pos == IF later = {} THEN Len(s) + 1 ELSE SetMin(later)
    IN  SubSeq(s, 1, pos - 1) \o <<x>> \o SubSeq(s, pos, Len(s))

RECURSIVE SortVideosInto(_, _)
SortVideosInto(sorted, rest) ==
    IF rest = <<>> THEN sorted
    ELSE SortVideosInto(InsertByKey(sorted, Head(rest)), Tail(rest))

\* line 297: [v['video_id'] for v in filtered_videos[:max_videos]]
FirstIds(videos, n) ==
    [i \in 1..Min2(n, Len(videos)) |-> videos[i].video_id]

\* the statistics the API holds: for each candidate none, or a record
Worlds(n) ==
    UNION {[S -> VideoStats] : S \in SUBSET (1..n)}

InitFilter ==
    /\ f_pc = "candidates"
    /\ max_videos \in 1..MaxVideosParam
    /\ \E n \in 0..MaxCandidates :
          /\ n <= max_videos * SearchLimitFactor
          /\ candidate_video_ids = [i \in 1..n |-> i]
          /\ world \in Worlds(n)
    /\ min_comment_count \in MinCommentCounts
    /\ days_old_max \in DaysOldMaxes
    /\ statistics = << >>
    /\ filtered_videos = <<>>
    /\ result_video_ids = <<>>
    /\ stats_failed = FALSE
    /\ MainIdle /\ MergeIdle /\ PageIdle /\ CallIdle /\ AggIdle
    /\ ExtractIdle

\* lines 252-254
FilterNoCandidates ==
    /\ f_pc = "candidates"
    /\ candidate_video_ids = <<>>
    /\ f_pc' = "done"
    /\ result_video_ids' = <<>>
    /\ UNCHANGED <<candidate_video_ids, world, statistics, max_videos,
                   min_comment_count, days_old_max, filtered_videos,
                   stats_failed, notFilterVars>>

\* line 257: get_video_statistics answers, or fails and returns {}
FilterGetStatistics ==
    /\ f_pc = "candidates"
    /\ candidate_video_ids # <<>>
    /\ \/ statistics' = world /\ UNCHANGED stats_failed
       \/ statistics' = << >> /\ stats_failed' = TRUE
    /\ f_pc' = "filter"
    /\ UNCHANGED <<candidate_video_ids, world, max_videos, min_comment_count,
                   days_old_max, filtered_videos, result_video_ids,
                   notFilterVars>>

\* line 257, lines 309-311: get_video_statistics ended with the exception its
\* HttpError clause raised; here the clause `except Exception` catches it
FilterStatisticsRaises ==
    /\ f_pc = "candidates"
    /\ candidate_video_ids # <<>>
    /\ \E e \in Errors : ExceptClauses(e) = "raises"
    /\ stats_failed' = TRUE
    /\ f_pc' = "done"
    /\ result_video_ids' = <<>>
    /\ UNCHANGED <<candidate_video_ids, world, statistics, max_videos,
                   min_comment_count, days_old_max, filtered_videos,
                   notFilterVars>>

\* lines 260-291
FilterLoop ==
    /\ f_pc = "filter"
    /\ filtered_videos' = FilterVideos(candidate_video_ids, statistics,
                                       min_comment_count, days_old_max)
    /\ f_pc' = "sort"
    /\ UNCHANGED <<candidate_video_ids, world, statistics, max_videos,
                   min_comment_count, days_old_max, result_video_ids,
                   stats_failed, notFilterVars>>

\* lines 294-300
FilterSortAndTruncate ==
    /\ f_pc = "sort"
    /\ filtered_videos' = SortVideosInto(<<>>, filtered_videos)
    /\ result_video_ids' = FirstIds(filtered_videos', max_videos)
    /\ f_pc' = "done"
    /\ UNCHANGED <<candidate_video_ids, world, statistics, max_videos,
                   min_comment_count, days_old_max, stats_failed,
                   notFilterVars>>

NextFilter ==
    \/ FilterNoCandidates
    \/ FilterGetStatistics
    \/ FilterStatisticsRaises
    \/ FilterLoop
    \/ FilterSortAndTruncate

SpecFilter == InitFilter /\ [][NextFilter]_vars

\* the candidates that meet the four conditions
Survivors ==
    {vid \in Range(candidate_video_ids) :
        /\ vid \in DOMAIN statistics
        /\ statistics[vid].comment_count >= min_comment_count
        /\ statistics[vid].published_at.ok
        /\ (NowHours - statistics[vid].published_at.hours) \div HoursPerDay
               <= days_old_max}

FilteredIds == {filtered_videos[i].video_id : i \in 1..Len(filtered_videos)}

\* C8: a candidate survives the filter iff statistics are available for it,
\* its comment_count >= minCommentCount, its publish timestamp parses and its
\* days_old <= daysOldMax; a candidate whose timestamp does not parse is
\* skipped alone.
C8_FilterKeepsExactlySurvivors ==
    f_pc \in {"sort", "done"} /\ candidate_video_ids # <<>> =>
        /\ FilteredIds = Survivors
        /\ \A i, j \in 1..Len(filtered_videos) :
              filtered_videos[i].video_id = filtered_videos[j].video_id
                  => i = j

\* the boundary cases at once: a count one below the minimum and an age one
\* day over are dropped, a count at the minimum with an age at the maximum
\* is kept, beside a candidate whose timestamp does not parse
C8_Witness ==
    /\ f_pc = "sort"
    /\ \E a, b, c \in DOMAIN statistics :
          /\ statistics[a].comment_count = min_comment_count
          /\ statistics[a].published_at.ok
          /\ DaysOld(NowHours, statistics[a].published_at) = days_old_max
          /\ a \in FilteredIds
          /\ ~statistics[b].published_at.ok
          /\ statistics[b].comment_count >= min_comment_count
          /\ b \notin FilteredIds
          /\ statistics[c].comment_count = min_comment_count - 1
          /\ c \notin FilteredIds

StatsOf(vid) ==
    [comment_count |-> statistics[vid].comment_count,
     days_old |-> (NowHours - statistics[vid].published_at.hours)
                      \div HoursPerDay]

\* C9: the result is the first maxVideos survivors by descending
\* comment_count and, among equal counts, ascending days_old: returned videos
\* are so ordered, no survivor left out ranks strictly before a returned one,
\* and the length is min(maxVideos, number of survivors).
C9_ResultIsTopOfRanking ==
    f_pc = "done" /\ candidate_video_ids # <<>> =>
        /\ Range(result_video_ids) \subseteq Survivors
        /\ Len(result_video_ids) = Min2(max_videos, Cardinality(Survivors))
        /\ \A i, j \in 1..Len(result_video_ids) :
              i < j =>
                LET a == StatsOf(result_video_ids[i])
                    b == StatsOf(result_video_ids[j])
                IN  \/ a.comment_count > b.comment_count
                    \/ /\ a.comment_count = b.comment_count
                       /\ a.days_old <= b.days_old
        /\ \A s \in Survivors \ Range(result_video_ids) :
              \A i \in 1..Len(result_video_ids) :
                LET a == StatsOf(s)
                    b == StatsOf(result_video_ids[i])
                IN  ~ \/ a.comment_count > b.comment_count
                      \/ /\ a.comment_count = b.comment_count
                         /\ a.days_old < b.days_old

\* more survivors than maxVideos; the result starts with a later candidate
\* that ties on the count with an earlier one and is more recent
C9_Witness ==
    /\ f_pc = "done"
    /\ Cardinality(Survivors) > max_videos
    /\ Len(result_video_ids) = max_videos
    /\ \E i, j \in 1..Len(result_video_ids) :
          /\ i < j
          /\ result_video_ids[i] > result_video_ids[j]
          /\ StatsOf(result_video_ids[i]).comment_count
                = StatsOf(result_video_ids[j]).comment_count
          /\ StatsOf(result_video_ids[i]).days_old
                < StatsOf(result_video_ids[j]).days_old

----------------------------------------------------------------------------
(* One call of any of the five operations of the fetcher that talk to the   *)
(* API: the three paginated ones, the rest of the keyword search, and the   *)
(* channel and statistics operations                                        *)

InitOps ==
    \/ InitPage
    \/ InitCall
    \/ InitFilter

NextOps ==
    \/ NextPage
    \/ NextCall
    \/ NextFilter

SpecOps == InitOps /\ [][NextOps]_vars

\* a failed call leaves the empty result, whatever was gathered before it
EmptyAfterFailure ==
    /\ (p_pc = "done" /\ p_err # None) => p_ret = <<>>
    /\ (c_pc = "done" /\ c_err # None) => c_ret = << >>
    /\ (f_pc = "done" /\ stats_failed) => result_video_ids = <<>>

\* C11: get_video_comments, get_channel_latest_videos, get_video_statistics,
\* search_videos_by_keyword and search_videos_by_category never raise to
\* their caller; when an API call fails, on the first page or on a later
\* page or batch, they return the empty result, dropping what earlier pages
\* gave.
C11_OperationsNeverRaise ==
    /\ p_pc # "raised"
    /\ c_pc # "raised"
    /\ EmptyAfterFailure

----------------------------------------------------------------------------
(* extract_event_info on arbitrary comments *)

TextSegments ==
    { <<"ws", 1>>, <<"plain", 1>>, <<"plain", 496>>, <<"plain", 497>>,
      <<"http_url", 12>>, <<"tld", 4>>, <<"date", 2>>, <<"date_ampm", 4>>,
      <<"kw", 2>> }

Texts == SeqsUpTo(TextSegments, MaxSegments)

\* comments with a text, and one without the key
InputComments ==
    [comment_id : {"c1"}, text : Texts, author : {"a", "b"},
     published_at : {"p"}]
    \cup [comment_id : {"c1"}, author : {"a"}, published_at : {"p"}]

InitExtract ==
    /\ e_pc = "call"
    /\ comment \in InputComments
    /\ e_ret = <<>>
    /\ MainIdle /\ MergeIdle /\ PageIdle /\ CallIdle /\ AggIdle
    /\ FilterIdle

CallExtractEventInfo ==
    /\ e_pc = "call"
    /\ \E t \in 0..MaxClock : e_ret' = extract_event_info(comment, t)
    /\ e_pc' = "returned"
    /\ UNCHANGED <<comment, notExtractVars>>

NextExtract == CallExtractEventInfo

SpecExtract == InitExtract /\ [][NextExtract]_vars

InputText == IF "text" \in DOMAIN comment THEN comment.text ELSE <<>>

\* C10: extract_event_info yields a record iff the text is not spam (no
\* URL-like match, trimmed length between 5 and 500 inclusive), matches a
\* date/time pattern and contains a vocabulary term; a spam text yields no
\* record whatever else it holds; a record echoes the input's comment_id,
\* text, author and published_at.
C10_RecordIffThreeChecksPass ==
    e_pc = "returned" =>
        LET trimmed == TextLen(Strip(InputText))
            spam == \/ \E i \in 1..Len(InputText) : InputText[i][1] \in UrlKinds
                    \/ trimmed < 5
                    \/ trimmed > 500
            dated == \E i \in 1..Len(InputText) : InputText[i][1] \in DateKinds
            worded == \E i \in 1..Len(InputText) : InputText[i][1] = "kw"
        IN  /\ e_ret # <<>> <=> (~spam /\ dated /\ worded)
            /\ e_ret # <<>> =>
                  /\ Len(e_ret) = 1
                  /\ e_ret[1].comment_id = comment.comment_id
                  /\ e_ret[1].text = comment.text
                  /\ e_ret[1].author = comment.author
                  /\ e_ret[1].published_at = comment.published_at

\* a record was produced for a text of 501 characters whose trimmed length
\* is 500, its date being an AM/PM form or not
C10_Witness ==
    /\ e_pc = "returned"
    /\ e_ret # <<>>
    /\ TextLen(InputText) = 501
    /\ TextLen(Strip(InputText)) = 500

----------------------------------------------------------------------------
(* merge_events on arbitrary lists of records *)

\* records as merge_events reads them: comment_id, and extracted_at if present
StampedRecords ==
    [comment_id : StampedIds, text : {"t"}, extracted_at : SampleStamps]
UnstampedRecords == [comment_id : CommentIds, text : {"t"}]
MergeRecords == StampedRecords \cup UnstampedRecords

InitMerge ==
    /\ m_pc = "call"
    /\ existing_arg \in SeqsUpTo(MergeRecords, MaxExisting)
    /\ new_arg \in SeqsUpTo(MergeRecords, MaxIncoming)
    /\ merged_ret = <<>>
    /\ MainIdle /\ PageIdle /\ CallIdle /\ AggIdle /\ FilterIdle
    /\ ExtractIdle

CallMergeEvents ==
    /\ m_pc = "call"
    /\ merged_ret' = merge_events(existing_arg, new_arg)
    /\ m_pc' = "returned"
    /\ UNCHANGED <<existing_arg, new_arg, notMergeVars>>

NextMerge == CallMergeEvents

SpecMerge == InitMerge /\ [][NextMerge]_vars

----------------------------------------------------------------------------
(* Properties of merge_events *)

\* C1: merge_events returns at most one record per comment_id; an id of the
\* incoming list carries the last incoming record with that id, an id found
\* only in the existing list carries an existing record with that id; the ids
\* of the output are exactly the ids of the two inputs.
C1_MergeDedupLastWriteWins ==
    m_pc = "returned" =>
        /\ NoDuplicateIds(merged_ret)
        /\ IdsOf(merged_ret) = IdsOf(existing_arg) \cup IdsOf(new_arg)
        /\ \A i \in 1..Len(merged_ret) :
              LET r == merged_ret[i] IN
              IF r.comment_id \in IdsOf(new_arg)
              THEN r = LastWithId(new_arg, r.comment_id)
              ELSE r \in Range(existing_arg)

\* an id present in both inputs, with different records, has been merged
C1_Witness ==
    /\ m_pc = "returned"
    /\ \E i \in 1..Len(existing_arg), j \in 1..Len(new_arg) :
          /\ existing_arg[i].comment_id = new_arg[j].comment_id
          /\ existing_arg[i] # new_arg[j]
    /\ \E i, j \in 1..Len(new_arg) :
          i # j /\ new_arg[i].comment_id = new_arg[j].comment_id
                /\ new_arg[i] # new_arg[j]

\* C2: in the output of merge_events two records with distinct extracted_at
\* strings are ordered by descending extracted_at (lexicographic), a record
\* without the field counting as the empty string, so that it comes after
\* every record with a non-empty extracted_at.
C2_MergeSortedDescending ==
    m_pc = "returned" =>
        /\ \A i, j \in 1..Len(merged_ret) :
              SortKey(merged_ret[i]) # SortKey(merged_ret[j]) =>
                  (i < j <=> StrLess(SortKey(merged_ret[j]),
                                     SortKey(merged_ret[i])))
        /\ \A i, j \in 1..Len(merged_ret) :
              ( /\ "extracted_at" \notin DOMAIN merged_ret[i]
                /\ "extracted_at" \in DOMAIN merged_ret[j]
                /\ merged_ret[j].extracted_at # <<>> ) => j < i

\* the output holds "2" before "10" (lexicographic, not numeric, order) and
\* after them a record without the field
C2_Witness ==
    /\ m_pc = "returned"
    /\ \E i, j, k \in 1..Len(merged_ret) :
          /\ "extracted_at" \notin DOMAIN merged_ret[k]
          /\ SortKey(merged_ret[i]) = <<Ch0 + 2>>
          /\ SortKey(merged_ret[j]) = <<Ch0 + 1, Ch0>>
          /\ i < j /\ j < k
    /\ Len(existing_arg) > 0

====
